---- MODULE Spec2Model ----
(***************************************************************************)
(* The Gitee client of the git provider package: construction, the eight   *)
(* public operations, requestV5 and the pagination loop requestList.       *)
(*                                                                         *)
(* A JavaScript object is a function from the keys it holds to values;     *)
(* an absent key reads as `undefined`.  A string that is inspected by the  *)
(* code (a ref) is a sequence of segments; other strings are atoms.        *)
(* The caller holds one params object (obj) and one client (client); an    *)
(* operation works on the caller's object itself ("caller"), on an object   *)
(* of its own ("own", held in local) or on the instance's PARAMS           *)
(* ("instance").  The caller awaits every call before the next.            *)
(***************************************************************************)
EXTENDS Integers, Sequences, FiniteSets, TLC

VARIABLES
    client,   \* the Gitee instance the caller holds
    built,    \* the access token the instance was constructed with
    obj,      \* the params object the caller holds and passes to operations
    local,    \* the params object an operation created for itself
    total,    \* number of rows the server holds for a list endpoint
    call      \* the current (or last finished) call of an operation

vars == <<client, built, obj, local, total, call>>

(***************************** bounds **************************************)
MaxFullPages == 2
MaxStartPage == 4
MaxRefLen == 3

(************************ program constants ********************************)
PER_PAGE == 100
FIRST_PAGE == 1
V5 == "https://gitee.com/api/v5"

(************************* objects and lodash ******************************)
Undef == "undefined"
EmptyObj == [k \in {} |-> Undef]

\* _.get(o, k): the value under k, undefined when absent
Get(o, k) == IF k \in DOMAIN o THEN o[k] ELSE Undef

\* _.defaults(o, s): assigns to o every key of s that o does not define
Defaults(o, s) ==
    [k \in DOMAIN o \cup DOMAIN s |-> IF k \in DOMAIN o THEN o[k] ELSE s[k]]

\* _.omit(o, ks): a copy of o without the keys ks
Omit(o, ks) == [k \in DOMAIN o \ ks |-> o[k]]

\* _.isEmpty(x) for a string or undefined
IsEmpty(x) == x = Undef \/ x = ""

\* _.startsWith(s, prefix), prefix one segment
StartsWith(s, prefix) == Len(s) > 0 /\ s[1] = prefix

\* _.replace(s, pattern, ''): removes the first occurrence of the pattern
Replace(s, pattern) ==
    IF \E i \in 1..Len(s) : s[i] = pattern
    THEN LET i == CHOOSE j \in 1..Len(s) :
                      /\ s[j] = pattern
                      /\ \A m \in 1..(j - 1) : s[m] # pattern
         IN  SubSeq(s, 1, i - 1) \o SubSeq(s, i + 1, Len(s))
    ELSE s

(****************************** inputs *************************************)
Tokens == {"t1", "t2"}
TokenInputs == Tokens \cup {Undef, ""}
TAGS == "refs/tags/"
HEADS == "refs/heads/"
Segments == {TAGS, HEADS, "main", "v1.0"}
RECURSIVE SeqsUpTo(_)
SeqsUpTo(n) ==
    IF n = 0 THEN {<<>>}
    ELSE LET shorter == SeqsUpTo(n - 1)
         IN  shorter \cup {Append(s, x) : s \in {t \in shorter : Len(t) = n - 1},
                                          x \in Segments}
Refs == SeqsUpTo(MaxRefLen) \ {<<>>}
MainRefs == {<<TAGS, "v1.0">>, <<HEADS, "main">>}
Totals ==
    {0, 1} \cup {n \in 0..(MaxFullPages * PER_PAGE + 1) :
                    \E k \in 1..MaxFullPages :
                        n \in {k * PER_PAGE - 1, k * PER_PAGE, k * PER_PAGE + 1}}
TransportErrors == {"ECONNRESET", "HTTP 500"}

\* the object literals a caller writes
Literal(keys, ref) ==
    [k \in keys |-> CASE k = "owner" -> "o"
                      [] k = "repo" -> "r"
                      [] k = "hook_id" -> "h1"
                      [] k = "url" -> "http://cb"
                      [] k = "ref" -> ref]
\* the arguments of the operations as written, and arguments that lack a key
LiteralShapes ==
    {{"owner", "repo"}, {"owner", "repo", "ref"}, {"owner", "repo", "hook_id"},
     {"owner", "repo", "url"}, {"owner", "repo", "hook_id", "url"},
     {"repo", "ref"}, {"owner", "hook_id", "url"}, {}}

(************************** the REST server ********************************)
ReposRow(k) == [id |-> k, name |-> <<"repo", k>>, html_url |-> <<"html", k>>]
BranchRow(k) == [name |-> <<"branch", k>>, commit |-> [sha |-> <<"sha", k>>]]
HookRow(k) == [id |-> k, url |-> <<"hook", k>>]
ServerRow(op, k) ==
    CASE op = "listRepos" -> ReposRow(k)
      [] op = "listBranchs" -> BranchRow(k)
      [] op = "listWebhook" -> HookRow(k)

\* the rows of page `page` when the list is cut into pages of per_page rows
ServerPage(op, n, per_page, page) ==
    LET first == (page - 1) * per_page + 1
        last == IF page * per_page < n THEN page * per_page ELSE n
    IN  IF first > last THEN <<>>
        ELSE [i \in 1..(last - first + 1) |-> ServerRow(op, first + i - 1)]

HookBody(id) == [id |-> id, url |-> "http://cb"]
TagBody(tag) == [tag_name |-> tag, target_commitish |-> "sha-tag"]
BranchBody(branch) ==
    [name |-> branch,
     commit |-> [sha |-> "sha-head", commit |-> [message |-> "msg"]]]

(******************************* state *************************************)
PARAMS == [per_page |-> PER_PAGE, page |-> FIRST_PAGE, sort |-> "updated"]

NoClient == [made |-> FALSE, access_token |-> Undef, PARAMS |-> PARAMS]

\* op: the operation; status: idle, pending (awaiting a response), done or
\* error; pos: where the operation continues when the response arrives;
\* target: which object the operation passes on as params; url, rows: the
\* locals of requestList; reqs: the HTTP requests issued by the call;
\* result: <<v>> once v was returned; err: the error thrown.
\* before, body, failedAt record the argument as passed, the response bodies
\* received and the number of requests issued when the transport failed.
IdleCall ==
    [op |-> "none", status |-> "idle", pos |-> "none", target |-> "own",
     url |-> <<>>, rows |-> <<>>, reqs |-> <<>>, result |-> <<>>,
     err |-> "", before |-> EmptyObj, body |-> <<>>, failedAt |-> 0]

Init ==
    /\ client = NoClient
    /\ built = Undef
    /\ obj = EmptyObj
    /\ local = EmptyObj
    /\ total \in Totals
    /\ call = IdleCall

\* the caller may start an operation: it holds a client and awaits no call
Ready == client.made /\ call.status # "pending"

NewCall(op) == [IdleCall EXCEPT !.op = op, !.before = obj]

(***************************** constructor *********************************)
TokenRejected(config) == IsEmpty(Get(config, "access_token"))

Configs == {EmptyObj} \cup {[access_token |-> t] : t \in TokenInputs \ {Undef}}

Construct ==
    /\ call.status # "pending"
    /\ \E config \in Configs :
          IF TokenRejected(config)
          THEN /\ call' = [IdleCall EXCEPT !.op = "constructor",
                                           !.before = config,
                                           !.status = "error",
                                           !.err = "Access token is required"]
               /\ UNCHANGED <<client, built>>
          ELSE /\ client' = [made |-> TRUE,
                             access_token |-> Get(config, "access_token"),
                             PARAMS |-> PARAMS]
               /\ built' = Get(config, "access_token")
               /\ call' = [IdleCall EXCEPT !.op = "constructor",
                                           !.before = config,
                                           !.status = "done"]
    /\ UNCHANGED <<obj, local, total>>

(************************* the caller's object *****************************)
NewParams ==
    /\ call.status # "pending"
    /\ \E keys \in LiteralShapes :
          \E ref \in IF "ref" \in keys THEN MainRefs ELSE {<<>>} :
             obj' = Literal(keys, ref)
    /\ call' = IdleCall
    /\ UNCHANGED <<client, built, local, total>>

(************************* validators of Base ******************************)
HasAll(params, keys) == keys \subseteq DOMAIN params
ValidateListBranchsParams(params) == HasAll(params, {"owner", "repo"})
ValidateGetRefCommitParams(params) == HasAll(params, {"owner", "repo", "ref"})
ValidateListWebhookParams(params) == HasAll(params, {"owner", "repo"})
ValidateCreateWebhookParams(params) == HasAll(params, {"owner", "repo", "url"})
ValidateUpdateWebhookParams(params) ==
    HasAll(params, {"owner", "repo", "url", "hook_id"})
ValidateGetWebhookParams(params) == HasAll(params, {"owner", "repo", "hook_id"})
ValidateDeleteWebhookParams(params) == HasAll(params, {"owner", "repo", "hook_id"})

(******************************* requestV5 *********************************)
\* The params object of call c, and an assignment to it.
Params(c) ==
    CASE c.target = "caller" -> obj
      [] c.target = "own" -> local
      [] c.target = "instance" -> client.PARAMS

SetParams(c, p) ==
    CASE c.target = "caller" -> obj' = p /\ UNCHANGED <<local, client>>
      [] c.target = "own" -> local' = p /\ UNCHANGED <<obj, client>>
      [] c.target = "instance" ->
            client' = [client EXCEPT !.PARAMS = p] /\ UNCHANGED <<obj, local>>

\* requestV5 of call c on params object p: p receives the access token by
\* _.defaults and the request is sent with p as its query parameters.
RequestV5(c, path, method, p) ==
    LET q == Defaults(p, [access_token |-> client.access_token])
    IN  /\ call' = [c EXCEPT !.status = "pending",
                             !.reqs = Append(@, [method |-> method,
                                                 url |-> <<V5>> \o path,
                                                 params |-> q])]
        /\ SetParams(c, q)

\* the operation throws e; its own objects are dropped
Throw(c, e) ==
    /\ call' = [c EXCEPT !.status = "error", !.err = e, !.rows = <<>>]
    /\ local' = EmptyObj
    /\ UNCHANGED <<obj, client>>

\* the operation returns v; its own objects are dropped
Return(c, v) ==
    /\ call' = [c EXCEPT !.status = "done", !.rows = <<>>, !.result = <<v>>]
    /\ local' = EmptyObj
    /\ UNCHANGED <<obj, client>>

ValidationError == "validation"

(*************************** rows to outputs *******************************)
RepoOutput(row) ==
    [id |-> Get(row, "id"), name |-> Get(row, "name"),
     url |-> Get(row, "html_url"), source |-> row]

BranchOutput(row) ==
    [name |-> Get(row, "name"), commit_sha |-> Get(Get(row, "commit"), "sha"),
     source |-> row]

ListWebhookOutput(row) ==
    [id |-> Get(row, "id"), url |-> Get(row, "url"), source |-> row]

\* _.map(rows, ...) of the operation that called requestList
ListOutput(op, rows) ==
    [i \in 1..Len(rows) |->
        CASE op = "listRepos" -> RepoOutput(rows[i])
          [] op = "listBranchs" -> BranchOutput(rows[i])
          [] op = "listWebhook" -> ListWebhookOutput(rows[i])]

(****************************** requestList ********************************)
\* the loop may be entered with this object (keeps page numbers bounded)
PageBounded(p) == IF "page" \in DOMAIN p THEN p.page <= MaxStartPage ELSE TRUE

\* The body of the do-while loop after the awaited response arrived; on
\* leaving the loop the rows go back to the operation, which maps them.
RequestListStep ==
    LET cur == Params(call)
        rq == call.reqs[Len(call.reqs)]
        data == ServerPage(call.op, total, rq.params.per_page, rq.params.page)
        rows == call.rows \o data
        rowLength == Len(data)
        p == [cur EXCEPT !.page = @ + 1]
    IN  IF rowLength = p.per_page
        THEN RequestV5([call EXCEPT !.rows = rows, !.body = Append(@, rowLength)],
                       call.url, "GET", p)
        ELSE /\ call' = [call EXCEPT !.status = "done", !.rows = <<>>,
                                     !.body = Append(@, rowLength),
                                     !.result = <<ListOutput(call.op, rows)>>]
             /\ IF call.target = "own"
                THEN local' = EmptyObj /\ UNCHANGED <<obj, client>>
                ELSE SetParams(call, p)

(******************************* listRepos *********************************)
\* listRepos with the arguments of _.defaults exchanged: the loop runs on
\* the instance's PARAMS
ListReposOnInstanceParams ==
    /\ Ready
    /\ PageBounded(client.PARAMS)
    /\ RequestV5([NewCall("listRepos") EXCEPT !.pos = "list",
                                              !.target = "instance",
                                              !.url = <<"user", "repos">>],
                 <<"user", "repos">>, "GET",
                 Defaults(client.PARAMS, [affiliation |-> "owner"]))
    /\ UNCHANGED <<built, total>>

ListRepos ==
    /\ Ready
    /\ RequestV5([NewCall("listRepos") EXCEPT !.pos = "list",
                                              !.url = <<"user", "repos">>],
                 <<"user", "repos">>, "GET",
                 Defaults([affiliation |-> "owner"], client.PARAMS))
    /\ UNCHANGED <<built, total>>

(****************************** listBranchs ********************************)
BranchesPath(params) ==
    <<"repos", Get(params, "owner"), Get(params, "repo"), "branches">>

\* listBranchs that sends its first request without validating
ListBranchsUnvalidated ==
    /\ Ready
    /\ PageBounded(obj)
    /\ RequestV5([NewCall("listBranchs") EXCEPT !.pos = "list",
                                                !.target = "caller",
                                                !.url = BranchesPath(obj)],
                 BranchesPath(obj), "GET", Defaults(obj, client.PARAMS))
    /\ UNCHANGED <<built, total>>

ListBranchs ==
    /\ Ready
    /\ PageBounded(obj)
    /\ IF ~ValidateListBranchsParams(obj)
       THEN Throw(NewCall("listBranchs"), ValidationError)
       ELSE RequestV5([NewCall("listBranchs") EXCEPT !.pos = "list",
                                                     !.target = "caller",
                                                     !.url = BranchesPath(obj)],
                      BranchesPath(obj), "GET", Defaults(obj, client.PARAMS))
    /\ UNCHANGED <<built, total>>

(****************************** getRefCommit *******************************)
TagPath(params, tag) ==
    <<"repos", Get(params, "owner"), Get(params, "repo"), "releases", "tags", tag>>
BranchPath(params, branch) ==
    <<"repos", Get(params, "owner"), Get(params, "repo"), "branches", branch>>

\* the branch name with refs/heads/ removed wherever it stands
BranchOfReplaceAnywhere(ref) == Replace(ref, HEADS)

\* the branch name of a ref that names no tag
BranchOf(ref) == IF StartsWith(ref, HEADS) THEN Replace(ref, HEADS) ELSE ref
TagOf(ref) == Replace(ref, TAGS)
IsTagRef(ref) == StartsWith(ref, TAGS)

GetRefCommit ==
    /\ Ready
    /\ IF ~ValidateGetRefCommitParams(obj)
       THEN Throw(NewCall("getRefCommit"), ValidationError)
       ELSE IF IsTagRef(obj.ref)
            THEN RequestV5([NewCall("getRefCommit") EXCEPT !.pos = "tag"],
                           TagPath(obj, TagOf(obj.ref)), "GET", EmptyObj)
            ELSE RequestV5([NewCall("getRefCommit") EXCEPT !.pos = "branch"],
                           BranchPath(obj, BranchOf(obj.ref)), "GET", EmptyObj)
    /\ UNCHANGED <<built, total>>

TagCommitOutput(result) ==
    LET source == Get(result, "data")
    IN  [sha |-> Get(source, "target_commitish"),
         message |-> Get(source, "tag_name"), source |-> source]

BranchCommitOutput(result) ==
    LET source == Get(result, "data")
    IN  [sha |-> Get(Get(source, "commit"), "sha"),
         message |-> Get(Get(Get(source, "commit"), "commit"), "message"),
         source |-> source]

(****************************** listWebhook ********************************)
HooksPath(params) ==
    <<"repos", Get(params, "owner"), Get(params, "repo"), "hooks">>
HookPath(params) ==
    <<"repos", Get(params, "owner"), Get(params, "repo"), "hooks",
      Get(params, "hook_id")>>

ListWebhook ==
    /\ Ready
    /\ PageBounded(obj)
    /\ IF ~ValidateListWebhookParams(obj)
       THEN Throw(NewCall("listWebhook"), ValidationError)
       ELSE RequestV5([NewCall("listWebhook") EXCEPT !.pos = "list",
                                                     !.target = "caller",
                                                     !.url = HooksPath(obj)],
                      HooksPath(obj), "GET", Defaults(obj, client.PARAMS))
    /\ UNCHANGED <<built, total>>

(***************************** createWebhook *******************************)
CreateWebhook ==
    /\ Ready
    /\ IF ~ValidateCreateWebhookParams(obj)
       THEN Throw(NewCall("createWebhook"), ValidationError)
       ELSE RequestV5([NewCall("createWebhook") EXCEPT !.pos = "create",
                                                       !.target = "caller"],
                      HooksPath(obj), "POST", obj)
    /\ UNCHANGED <<built, total>>

CreateWebhookOutput(result) ==
    LET source == Get(result, "data")
    IN  [id |-> Get(source, "id"), source |-> source]

(***************************** updateWebhook *******************************)
UpdateWebhook ==
    /\ Ready
    /\ IF ~ValidateUpdateWebhookParams(obj)
       THEN Throw(NewCall("updateWebhook"), ValidationError)
       ELSE RequestV5([NewCall("updateWebhook") EXCEPT !.pos = "update"],
                      HookPath(obj), "PATCH",
                      Omit(obj, {"owner", "repo", "hook_id"}))
    /\ UNCHANGED <<built, total>>

(****************************** getWebhook *********************************)
GetWebhook ==
    /\ Ready
    /\ IF ~ValidateGetWebhookParams(obj)
       THEN Throw(NewCall("getWebhook"), ValidationError)
       ELSE RequestV5([NewCall("getWebhook") EXCEPT !.pos = "get",
                                                    !.target = "caller"],
                      HookPath(obj), "GET", obj)
    /\ UNCHANGED <<built, total>>

GetWebhookOutput(result) ==
    LET source == Get(result, "data")
    IN  [id |-> Get(result, "id"), url |-> Get(result, "url"), source |-> source]

(***************************** deleteWebhook *******************************)
DeleteWebhook ==
    /\ Ready
    /\ IF ~ValidateDeleteWebhookParams(obj)
       THEN Throw(NewCall("deleteWebhook"), ValidationError)
       ELSE RequestV5([NewCall("deleteWebhook") EXCEPT !.pos = "delete"],
                      HookPath(obj), "DELETE", EmptyObj)
    /\ UNCHANGED <<built, total>>

(******************************* responses *********************************)
\* the body the server answers the pending singular request with
ServerBody ==
    LET rq == call.reqs[Len(call.reqs)]
        last == rq.url[Len(rq.url)]
    IN  CASE call.pos = "tag" -> TagBody(last)
          [] call.pos = "branch" -> BranchBody(last)
          [] call.pos = "create" -> HookBody("h-new")
          [] call.pos = "get" -> HookBody(last)
          [] OTHER -> EmptyObj

\* the axios response of a singular request
Response(body) == [data |-> body, status |-> "2xx"]

\* the server answers the pending request; the operation continues after
\* its await
Respond ==
    /\ call.status = "pending"
    /\ LET c == [call EXCEPT !.body = Append(@, ServerBody)]
           result == Response(ServerBody)
       IN  CASE call.pos = "list" -> RequestListStep
             [] call.pos = "tag" -> Return(c, TagCommitOutput(result))
             [] call.pos = "branch" -> Return(c, BranchCommitOutput(result))
             [] call.pos = "create" -> Return(c, CreateWebhookOutput(result))
             [] call.pos = "get" -> Return(c, GetWebhookOutput(result))
             [] call.pos \in {"update", "delete"} -> Return(c, Undef)
    /\ UNCHANGED <<built, total>>

\* a loop that catches the rejection and returns the rows it has
FailReturnsPartial ==
    /\ call.status = "pending"
    /\ \E e \in TransportErrors :
          Return([call EXCEPT !.failedAt = Len(call.reqs), !.body = Append(@, e)],
                 call.rows)
    /\ UNCHANGED <<built, total>>

\* the transport rejects the pending request; the error reaches the caller
Fail ==
    /\ call.status = "pending"
    /\ \E e \in TransportErrors :
          Throw([call EXCEPT !.failedAt = Len(call.reqs), !.body = Append(@, e)], e)
    /\ UNCHANGED <<built, total>>

Next ==
    \/ Construct
    \/ NewParams
    \/ ListRepos
    \/ ListBranchs
    \/ GetRefCommit
    \/ ListWebhook
    \/ CreateWebhook
    \/ UpdateWebhook
    \/ GetWebhook
    \/ DeleteWebhook
    \/ Respond
    \/ Fail

Spec == Init /\ [][Next]_vars

(******************* getRefCommit on every ref shape ***********************)
\* A caller that holds a client and a getRefCommit argument and calls
\* getRefCommit, repeatedly.
InitRef ==
    /\ \E t \in Tokens :
          /\ client = [made |-> TRUE, access_token |-> t, PARAMS |-> PARAMS]
          /\ built = t
    /\ \E ref \in Refs : obj = Literal({"owner", "repo", "ref"}, ref)
    /\ local = EmptyObj
    /\ total \in {0, PER_PAGE}
    /\ call = IdleCall

NextRef ==
    \/ GetRefCommit
    \/ Respond
    \/ Fail

SpecRef == InitRef /\ [][NextRef]_vars

(******************************* claims ************************************)
ListOps == {"listRepos", "listBranchs", "listWebhook"}
Finished == call.status \in {"done", "error"}
Returned == call.result[1]

RECURSIVE Sum(_)
Sum(s) == IF s = <<>> THEN 0 ELSE Head(s) + Sum(Tail(s))

\* C1: a paginated fetch that returns has returned exactly the rows the
\* server holds, each once and in server order, and as many rows as the
\* pages it fetched held together.
C1_ExactlyTheServerRows ==
    (call.op \in ListOps /\ call.status = "done") =>
        /\ Len(Returned) = total
        /\ Len(Returned) = Sum(call.body)
        /\ \A i \in 1..Len(Returned) : Returned[i].source = ServerRow(call.op, i)

\* C2: a paginated fetch that returns has issued ceil(total/pageSize) GET
\* requests when total is no multiple of the page size and
\* total/pageSize + 1 when it is (one request for total = 0).
ExpectedRequests(n, size) ==
    IF n % size = 0 THEN (n \div size) + 1 ELSE (n + size - 1) \div size

C2_RequestCount ==
    (call.op \in ListOps /\ call.status = "done") =>
        /\ Len(call.reqs) = ExpectedRequests(total, 100)
        /\ \A i \in 1..Len(call.reqs) : call.reqs[i].method = "GET"

\* C3: an operation whose validator raises on its argument ends with the
\* validation error and has issued no HTTP request.
Valid(op, params) ==
    CASE op = "listBranchs" -> ValidateListBranchsParams(params)
      [] op = "getRefCommit" -> ValidateGetRefCommitParams(params)
      [] op = "listWebhook" -> ValidateListWebhookParams(params)
      [] op = "createWebhook" -> ValidateCreateWebhookParams(params)
      [] op = "updateWebhook" -> ValidateUpdateWebhookParams(params)
      [] op = "getWebhook" -> ValidateGetWebhookParams(params)
      [] op = "deleteWebhook" -> ValidateDeleteWebhookParams(params)
      [] OTHER -> TRUE

C3_ValidationBeforeRequest ==
    /\ ~Valid(call.op, call.before) =>
          /\ call.status = "error"
          /\ call.err = ValidationError
          /\ call.reqs = <<>>
    /\ call.err = ValidationError => call.reqs = <<>>

C3_Witness ==
    /\ call.op = "createWebhook"
    /\ ~Valid(call.op, call.before)
    /\ call.status = "error"

\* C4: getRefCommit on a valid argument issues exactly one request, a GET:
\* to the release-tags endpoint with the remainder of ref when ref begins
\* with refs/tags/, else to the branches endpoint with ref less a leading
\* refs/heads/, and with ref itself when it has neither prefix.
C4_Endpoint(ref) ==
    IF ref[1] = "refs/tags/"
    THEN <<"https://gitee.com/api/v5", "repos", "o", "r", "releases", "tags", Tail(ref)>>
    ELSE <<"https://gitee.com/api/v5", "repos", "o", "r", "branches",
           IF ref[1] = "refs/heads/" THEN Tail(ref) ELSE ref>>

C4_RefEndpoint ==
    (call.op = "getRefCommit" /\ Valid(call.op, call.before)) =>
        /\ Len(call.reqs) = 1
        /\ call.reqs[1].method = "GET"
        /\ call.reqs[1].url = C4_Endpoint(call.before.ref)

C4_Witness ==
    /\ call.op = "getRefCommit"
    /\ call.status = "done"
    /\ call.before.ref = <<"refs/heads/", "refs/tags/", "v1.0">>
    /\ call.reqs[1].url[5] = "branches"

\* C5: a webhook output of listWebhook, getWebhook and createWebhook holds
\* the response body (the row) under source, its id is source.id and, for
\* listWebhook and getWebhook, its url is source.url.
C5_WebhookOutput ==
    /\ (call.op = "listWebhook" /\ call.status = "done") =>
          \A i \in 1..Len(Returned) :
             /\ Returned[i].source = HookRow(Returned[i].source.id)
             /\ Returned[i].id = Returned[i].source.id
             /\ Returned[i].url = Returned[i].source.url
    /\ (call.op \in {"getWebhook", "createWebhook"} /\ call.status = "done") =>
          /\ Returned.source = call.body[Len(call.body)]
          /\ Returned.id = Returned.source.id
          /\ call.op = "getWebhook" => Returned.url = Returned.source.url

\* C6: every HTTP request of a call carries access_token with the token of
\* the client that issued it.
C6_TokenOnEveryRequest ==
    \A i \in 1..Len(call.reqs) :
        Get(call.reqs[i].params, "access_token") = built

\* C7: when a page request of a paginated fetch fails the call ends with
\* that error, returns nothing, and the failed request was its last.
C7_FailureAborts ==
    (call.op \in ListOps /\ call.failedAt > 0) =>
        /\ call.status = "error"
        /\ call.err = call.body[Len(call.body)]
        /\ call.err \in TransportErrors
        /\ call.result = <<>>
        /\ Len(call.reqs) = call.failedAt

C7_Witness ==
    /\ call.op = "listBranchs"
    /\ call.failedAt = 2
    /\ call.status = "error"

\* C8: a client that exists holds the non-empty token it was constructed
\* with and the defaults per_page = 100, page = 1, sort = 'updated';
\* construction with a missing or empty token raises and yields no client.
C8_ClientReadOnly ==
    /\ client.made =>
          /\ client.access_token = built
          /\ built \notin {Undef, ""}
          /\ client.PARAMS = [per_page |-> 100, page |-> 1, sort |-> "updated"]
    /\ ~client.made => built = Undef
    /\ (call.op = "constructor"
        /\ Get(call.before, "access_token") \in {Undef, ""}) =>
            /\ call.status = "error"
            /\ call.err = "Access token is required"
    /\ (call.op = "constructor" /\ call.status = "done") =>
            /\ client.made
            /\ client.access_token = call.before.access_token

C8_Witness ==
    /\ client.made
    /\ call.op = "listRepos"
    /\ call.status = "done"
    /\ Len(call.reqs) = 3

\* C9: the requests of a paginated fetch start at page 1 with per_page 100,
\* each later one has the same per_page and the next page number, and the
\* fetch stops after the first page whose row count differs from per_page.
C9_PageSequence ==
    (call.op \in ListOps /\ call.reqs # <<>>) =>
        /\ call.reqs[1].params.page = 1
        /\ call.reqs[1].params.per_page = 100
        /\ \A i \in 1..(Len(call.reqs) - 1) :
              /\ call.reqs[i + 1].params.page = call.reqs[i].params.page + 1
              /\ call.reqs[i + 1].params.per_page = call.reqs[i].params.per_page
              /\ call.body[i] = call.reqs[i].params.per_page
        /\ call.status = "done" =>
              call.body[Len(call.reqs)] # call.reqs[Len(call.reqs)].params.per_page

\* C10: when an operation has returned or thrown, the caller's params
\* object has the keys and values it was passed with.
C10_ParamsUntouched ==
    (Finished /\ call.op # "constructor") => obj = call.before
====
